---- MODULE Spec2Model ----
(***************************************************************************)
(* A model of pipx's installation-progress tracker (src/pipx/progress.py, *)
(* class InstallProgress), of the freeze command                           *)
(* (src/pipx/commands/freeze.py) and of the inject command                 *)
(* (src/pipx/commands/inject.py).                                          *)
(*                                                                         *)
(* Text is modelled character by character: a Python str is a TLA+ string, *)
(* read with Len, SubSeq and \o, and every regular expression of the code  *)
(* is an operator that scans the characters the way re.match / re.search   *)
(* do.  Three characters that TLA+ strings cannot hold are written as      *)
(* ASCII stand-ins: the bar character U+2501 is "#", and the three emoji   *)
(* of the banners are "{box}", "{down}" and "{disk}".                      *)
(***************************************************************************)
EXTENDS Integers, Sequences, FiniteSets, TLC

\* ------------------------------------------------------------------ bounds

\* parse_line calls in one life of a tracker.
MaxCalls == 4

\* finish calls in one life of a tracker (the caller makes one; a second one
\* shows what a repeated call does).
MaxFinish == 2

\* venv directories in the container that freeze reads.
MaxVenvs == 2

\* package specifications on the command line of inject.
MaxDeps == 2

\* -------------------------------------------------------- text primitives

Min(S) == CHOOSE m \in S : \A k \in S : m <= k

\* s[i] of Python, "" outside the string.
At(s, i) == IF i >= 1 /\ i <= Len(s) THEN SubSeq(s, i, i) ELSE ""

\* s[i:j+1] of Python, clipped to the string.
Slice(s, i, j) == IF i > j \/ i > Len(s) THEN "" ELSE SubSeq(s, i, IF j > Len(s) THEN Len(s) ELSE j)

Digits == <<"0", "1", "2", "3", "4", "5", "6", "7", "8", "9">>

\* \d
IsDigit(c) == \E k \in 1..10 : Digits[k] = c

\* \s, and the characters str.strip() removes
IsSpace(c) == c \in {" ", "\t", "\r", "\n"}

\* The character classes of the code's regular expressions, by the text of
\* the class; "" (past the end of the string) is in none of them.
InClass(cls, c) ==
    /\ c # ""
    /\ CASE cls = "\\d"      -> IsDigit(c)
         [] cls = "\\s"      -> IsSpace(c)
         [] cls = "[^\\s]"   -> ~IsSpace(c)
         [] cls = "[^\\s(]"  -> ~IsSpace(c) /\ c # "("
         [] cls = "[\\d:]"   -> IsDigit(c) \/ c = ":"
         [] cls = "[^-]"     -> c # "-"
         [] cls = "[^)]"     -> c # ")"
         [] cls = "."        -> c # "\n"

\* The last index of the longest run of characters of class cls that starts
\* at i (i - 1 when s[i] is not of the class): a greedy cls* from i.
RunEnd(s, i, cls) ==
    LET stop == {k \in i..(Len(s) + 1) : ~InClass(cls, At(s, k))}
    IN  Min(stop) - 1

\* str.startswith
StartsWith(s, p) == Len(s) >= Len(p) /\ SubSeq(s, 1, Len(p)) = p

\* str.strip()
strip(s) ==
    LET keep == {k \in 1..Len(s) : ~IsSpace(At(s, k))}
    IN  IF keep = {} THEN ""
        ELSE SubSeq(s, Min(keep), CHOOSE m \in keep : \A k \in keep : k <= m)

DigitVal(c) == (CHOOSE k \in 1..10 : Digits[k] = c) - 1

\* int() of a string of digits
RECURSIVE ToNat(_)
ToNat(s) == IF s = "" THEN 0 ELSE 10 * ToNat(SubSeq(s, 1, Len(s) - 1)) + DigitVal(At(s, Len(s)))

\* str() of a natural number
RECURSIVE Str(_)
Str(n) == IF n < 10 THEN Digits[n + 1] ELSE Str(n \div 10) \o Digits[(n % 10) + 1]

\* The stand-ins of the characters a TLA+ string cannot hold.
BAR == "#"
BOX == "{box}"
DOWN == "{down}"
DISK == "{disk}"

NoMatch == [ok |-> FALSE, g1 |-> "", g2 |-> "", g3 |-> ""]
Match(a, b, c) == [ok |-> TRUE, g1 |-> a, g2 |-> b, g3 |-> c]

\* ------------------------------------------- the regular expressions
\* Each operator scans the characters as the regular expression engine does;
\* re.search returns the match with the leftmost start.

\* The match of (\d+)% that starts at the digit at i.
percentage_at(line, i) == Match(Slice(line, i, RunEnd(line, i, "\\d")), "", "")

LeftmostPercentage(line, starts) ==
    IF starts = {} THEN NoMatch ELSE percentage_at(line, Min(starts))

\* re.search(r'(\d+)%', line): the leftmost run of digits that "%" follows.
re_percentage(line) ==
    LeftmostPercentage(line, {i \in 1..Len(line) :
                                /\ IsDigit(At(line, i))
                                /\ At(line, RunEnd(line, i, "\\d") + 1) = "%"})

\* The end of an optional "." and digits after the digits that end at d1.
FractionEnd(s, d1) == IF At(s, d1 + 1) = "." THEN RunEnd(s, d1 + 2, "\\d") ELSE d1

\* The end of \d+\.?\d* matched greedily from a digit at i.  Only this
\* longest span can be followed by "/" or by white space: every shorter one
\* is followed by a digit or by ".".
NumberEnd(s, i) == FractionEnd(s, RunEnd(s, i, "\\d"))

\* \s+(MB|KB|GB) after a second number that ends at e2.
UnitAfter(line, e1, e2, ws) ==
    IF ws > e2 /\ Slice(line, ws + 1, ws + 2) \in {"MB", "KB", "GB"}
    THEN <<e1, e2, ws>> ELSE <<>>

\* /(\d+\.?\d*) after a first number that ends at e1.
TotalAfter(line, e1, e2) == UnitAfter(line, e1, e2, RunEnd(line, e2 + 1, "\\s"))

DownloadedUpTo(line, e1) ==
    IF At(line, e1 + 1) = "/" /\ IsDigit(At(line, e1 + 2))
    THEN TotalAfter(line, e1, NumberEnd(line, e1 + 2)) ELSE <<>>

\* The match of (\d+\.?\d*)/(\d+\.?\d*)\s+(MB|KB|GB) that starts at i, as
\* <<end of group 1, end of group 2, end of \s+>>, or <<>> when there is none.
ProgressBarAt(line, i) ==
    IF IsDigit(At(line, i)) THEN DownloadedUpTo(line, NumberEnd(line, i)) ELSE <<>>

ProgressBarGroups(line, i, e) ==
    Match(Slice(line, i, e[1]), Slice(line, e[1] + 2, e[2]), Slice(line, e[3] + 1, e[3] + 2))

ProgressBarFrom(line, i) == ProgressBarGroups(line, i, ProgressBarAt(line, i))

LeftmostProgressBar(line, starts) ==
    IF starts = {} THEN NoMatch ELSE ProgressBarFrom(line, Min(starts))

\* re.search(r'(\d+\.?\d*)/(\d+\.?\d*)\s+(MB|KB|GB)', line)
re_progress_bar(line) ==
    LeftmostProgressBar(line, {i \in 1..Len(line) : ProgressBarAt(line, i) # <<>>})

\* The group ([\d:]+) that starts at b.
EtaGroup(line, b) == Match(Slice(line, b, RunEnd(line, b, "[\\d:]")), "", "")

LeftmostEta(line, starts) ==
    IF starts = {} THEN NoMatch
    ELSE EtaGroup(line, RunEnd(line, Min(starts) + 3, "\\s") + 1)

\* re.search(r'eta\s+([\d:]+)', line)
re_eta(line) ==
    LeftmostEta(line, {i \in 1..Len(line) :
                         /\ Slice(line, i, i + 2) = "eta"
                         /\ IsSpace(At(line, i + 3))
                         /\ InClass("[\\d:]", At(line, RunEnd(line, i + 3, "\\s") + 1))})

\* The group (cls+) that starts after the white space ending at k.
LiteralGroup(line, k, cls) == Match(Slice(line, k + 1, RunEnd(line, k + 1, cls)), "", "")

\* \s+ is greedy: of the ends that leave the group a character, the last.
LongestSpace(line, ends, cls) ==
    IF ends = {} THEN NoMatch
    ELSE LiteralGroup(line, CHOOSE m \in ends : \A n \in ends : n <= m, cls)

\* (cls+) after white space that starts at b and runs to ws at most.
SpaceThenGroup(line, b, ws, cls) ==
    LongestSpace(line, {k \in b..ws : RunEnd(line, k + 1, cls) > k}, cls)

\* re.match(lit + r'\s+(cls+)', line): the literal at the start of the line,
\* white space, and the longest run of cls.  \s+ gives white space back only
\* when the group would otherwise be empty (which only "." allows, white
\* space being of no other class used here).
re_literal_group(line, lit, cls) ==
    IF StartsWith(line, lit) /\ IsSpace(At(line, Len(lit) + 1))
    THEN SpaceThenGroup(line, Len(lit) + 1, RunEnd(line, Len(lit) + 1, "\\s"), cls)
    ELSE NoMatch

PackageUpTo(filename, e) == IF e >= 1 THEN Match(Slice(filename, 1, e), "", "") ELSE NoMatch

\* re.match(r"([^-]+)", filename)
re_package(filename) == PackageUpTo(filename, RunEnd(filename, 1, "[^-]"))

SizeFrom(line, i) == Match(Slice(line, i + 1, RunEnd(line, i + 1, "[^)]")), "", "")

LeftmostSize(line, starts) == IF starts = {} THEN NoMatch ELSE SizeFrom(line, Min(starts))

\* re.search(r'\(([^)]+)\)', line): the leftmost "(" with one character or
\* more, none of them ")", up to a ")".
re_size(line) ==
    LeftmostSize(line, {i \in 1..Len(line) :
                          /\ At(line, i) = "("
                          /\ RunEnd(line, i + 1, "[^)]") > i
                          /\ At(line, RunEnd(line, i + 1, "[^)]") + 1) = ")"})

\* ------------------------------------------------------------- numbers

\* float(s) for a string s matched by \d+\.?\d*, as a number of tenths.
\* Exact for the strings with at most one digit after the point, which is
\* what every line of Lines has.  e is the end of the digits before the point.
float_parts(s, e, frac) ==
    10 * ToNat(Slice(s, 1, e)) + (IF frac = "" THEN 0 ELSE ToNat(frac))

float_at(s, e) == float_parts(s, e, Slice(s, e + 2, e + 2))

float(s) == float_at(s, RunEnd(s, 1, "\\d"))

\* f"{x:.1f}" of a number of tenths
format_1f(x) == Str(x \div 10) \o "." \o Str(x % 10)

\* int_percentage rounding to the nearest integer where int() truncates.
round_percentage(downloaded, total) == (downloaded * 100 + total \div 2) \div total

\* int((downloaded / total) * 100), for total > 0.  Computed on the exact
\* quotient; Python's binary floating point gives the same integer for
\* every pair of values in Lines (it differs for a few pairs, such as
\* 0.3/0.1 -> 299).
int_percentage(downloaded, total) == (downloaded * 100) \div total

\* --------------------------------------------------------------- input

\* The lines of pip output the tracker is fed with: each classifier rule, with
\* and without its optional parts, the lines that two rules match, the lines
\* that no rule matches, and padded and empty lines.
Lines == <<
    "Collecting foo",
    "  Collecting bar>=2.0 (from foo)\n",
    "Downloading foo-1.0-py3-none-any.whl (12 kB)",
    "Downloading bar-2.0.tar.gz",
    "Downloading -r.txt",
    "Downloading foo-1.0.tar.gz (0.0/0.0 MB)",
    "Installing collected packages: foo",
    "Installing collected packages: bar, foo",
    "Successfully installed foo-1.0",
    "Building wheel for bar (setup.py)",
    "Using cached foo-1.0-py3-none-any.whl",
    "15.2/69.2 MB 350.1 kB/s eta 0:02:35",
    "# 5.0/17.3 MB",
    "# 50% 5.0/17.3 MB",
    "5.0/0.0 MB",
    "",
    "   ",
    "done 100%",
    "Using cached -r.txt" >>

\* ------------------------------------------------------------- tracker

VARIABLES
    self,       \* the InstallProgress object: its attributes
    stderr,     \* what has been sent to sys.stderr, in order
    last,       \* the latest call: its method, its line (an index in Lines),
                \* the message it passed to _display_progress (None if it did
                \* not call it) and the number of requests it sent to stderr
    calls,      \* parse_line calls made
    finishes,   \* finish calls made
    scen,       \* how many of the calls made so far followed Scenario, in order
    venv_container, \* freeze: the venv directories by name, each with what
                    \* its venv.pipx_metadata.to_dict() returns
    skip_pkgs,      \* freeze: the names to leave out
    venv_dirs,      \* freeze: the directories the loop has still to visit
    spec_metadata,  \* freeze: the document under construction
    stdout,         \* what has been printed, in order
    pc,             \* freeze: where the call is
    inject_args,    \* inject: package_specs, requirement_files, include_apps
                    \* and include_dependencies of the call
    inject_env,     \* inject: the specifications pip fails to install and
                    \* the packages that have no app to expose
    venv_dir,       \* inject: the venv directory, its state and the packages
                    \* injected in it
    dependencies,  \* inject: the list the loop goes through
    all_success,    \* inject: the local of that name
    attempted,      \* inject: the specifications inject_dep was called with
    printed,        \* inject: the packages inject_dep has reported injected
    raised,         \* inject: the exception that ended the call, or "none"
    exit_code,      \* inject: what the call returned, or "none"
    inject_pc       \* inject: where the call is

\* Optional[str]: None is <<>>, a string s is <<s>>.
None == <<>>
Some(s) == <<s>>

\* Python's truth value of an Optional[str]
Truthy(opt) == opt # None /\ opt[1] # ""

\* InstallProgress.__init__ ; isatty is what sys.stderr.isatty() answers.
InstallProgress(package_name, isatty) ==
    [ package_name      |-> package_name,
      current_package   |-> None,
      current_action    |-> "None",
      seen_packages     |-> {},
      collecting_shown  |-> FALSE,
      downloading_shown |-> FALSE,
      installing_shown  |-> FALSE,
      stderr_is_tty     |-> isatty,
      last_message      |-> "" ]

\* A world w is [self |-> the object, stderr |-> the stream, message |-> the
\* argument of the call of _display_progress made since the world was
\* entered, None if there was none]: the methods below map the world before a
\* call to the world after it.

\* pipx.animate.clear_line(), as the call it is: one erase request on stderr.
clear_line(w) == [w EXCEPT !.stderr = Append(@, [op |-> "clear_line", text |-> ""])]

\* sys.stderr.write(text); sys.stderr.flush()
write(w, text) == [w EXCEPT !.stderr = Append(@, [op |-> "write", text |-> text])]

\* lines 31-40
redisplay(w, message) ==
    IF w.self.stderr_is_tty
    THEN write(clear_line([w EXCEPT !.self.last_message = message]), "  " \o message \o "\r")
    ELSE write([w EXCEPT !.self.last_message = message], "  " \o message \o "\n")

\* display_unless_same without the comparison of lines 28-29.
display_always(w, message) == redisplay(w, message)

\* lines 28-40; w is the world in which the call is noted
display_unless_same(w, message) ==
    IF message = w.self.last_message THEN w ELSE redisplay(w, message)

\* InstallProgress._display_progress
_display_progress(w, message) ==
    display_unless_same([w EXCEPT !.message = Some(message)], message)

\* The branches of parse_line.  Each takes the world w at the call, the
\* stripped line ln and its first character, and rest: the world that the
\* code below the branch leaves when the branch does not return.  (No branch
\* changes anything before it falls through, so the code below it starts
\* from w as well.)

\* lines 58-67
percentage_matched(w, percentage_match, rest) ==
    IF percentage_match.ok /\ Truthy(w.self.current_package) /\ w.self.stderr_is_tty
    THEN IF w.self.current_action = "Downloading"
         THEN _display_progress(w, "Downloading " \o w.self.current_package[1] \o "... "
                                   \o percentage_match.g1 \o "%")
         ELSE IF w.self.current_action = "Collecting"
         THEN _display_progress(w, "Resolving " \o w.self.current_package[1] \o "... "
                                   \o percentage_match.g1 \o "%")
         ELSE rest
    ELSE rest

\* percentage_branch without the test of the first character of line 53.
percentage_anywhere(w, ln, first_char, rest) ==
    percentage_matched(w, re_percentage(ln), rest)

\* parse_line, lines 51-67: the explicit percentage.
percentage_branch(w, ln, first_char, rest) ==
    percentage_matched(w, IF first_char \in {" ", BAR} THEN re_percentage(ln) ELSE NoMatch, rest)

\* The text that lines 87 and 89 share.
sizes_message(w, percentage, downloaded, total, unit) ==
    "Downloading " \o w.self.current_package[1] \o "... " \o Str(percentage) \o "% ("
    \o format_1f(downloaded) \o "/" \o format_1f(total) \o " " \o unit \o ")"

\* lines 83-90
progress_bar_show(w, message, eta_match) ==
    IF eta_match.ok /\ w.self.stderr_is_tty
    THEN _display_progress(w, message \o " ETA: " \o eta_match.g1)
    ELSE IF w.self.stderr_is_tty
    THEN _display_progress(w, message)
    ELSE w

\* lines 80-90
progress_bar_sized(w, ln, downloaded, total, unit, rest) ==
    IF total > 0
    THEN progress_bar_show(w,
             sizes_message(w, int_percentage(downloaded, total), downloaded, total, unit),
             re_eta(ln))
    ELSE rest

\* lines 76-90
progress_bar_matched(w, ln, progress_bar_match, rest) ==
    IF progress_bar_match.ok
    THEN progress_bar_sized(w, ln, float(progress_bar_match.g1), float(progress_bar_match.g2),
                            progress_bar_match.g3, rest)
    ELSE rest

\* parse_line, lines 69-90: downloaded/total sizes, only while downloading.
progress_bar_branch(w, ln, rest) ==
    progress_bar_matched(w, ln,
        IF w.self.current_action = "Downloading" /\ Truthy(w.self.current_package)
        THEN re_progress_bar(ln) ELSE NoMatch,
        rest)

\* lines 103-106
track_package(w, package) ==
    [w EXCEPT !.self.seen_packages = @ \cup {package},
              !.self.current_package = Some(package),
              !.self.current_action = "Collecting",
              !.self.collecting_shown = TRUE]

\* lines 109-110
show_count(w) ==
    _display_progress(w, BOX \o " Resolving dependencies... ("
                         \o Str(Cardinality(w.self.seen_packages)) \o " found)")

\* collecting_matched without the membership test of line 102.
collecting_recounts(w, collecting_match, rest) ==
    IF collecting_match.ok
    THEN show_count(track_package(w, collecting_match.g1))
    ELSE rest

\* lines 98-111
collecting_matched(w, collecting_match, rest) ==
    IF collecting_match.ok
    THEN IF collecting_match.g1 \notin w.self.seen_packages
         THEN show_count(track_package(w, collecting_match.g1))
         ELSE w
    ELSE rest

\* parse_line, lines 92-111: "Collecting package-name".
collecting_branch(w, ln, first_char, rest) ==
    collecting_matched(w,
        IF first_char = "C" /\ StartsWith(ln, "Collecting")
        THEN re_literal_group(ln, "Collecting", "[^\\s(]") ELSE NoMatch,
        rest)

\* clear_resolving without the erase.
keep_resolving(w) == w

\* lines 123-124 and 201-202
clear_resolving(w) ==
    IF w.self.stderr_is_tty /\ w.self.collecting_shown THEN clear_line(w) ELSE w

\* parse_line, lines 120-124 and 198-202: the first download or cached file
\* clears the resolving banner.
first_download(w) ==
    IF ~w.self.downloading_shown
    THEN clear_resolving([w EXCEPT !.self.downloading_shown = TRUE])
    ELSE w

\* show_download without the size of lines 135-138.
show_download_bare(w, ln, package, size_match) ==
    _display_progress(w, DOWN \o "  Downloading " \o package \o "...")

\* lines 131-140
show_download(w, ln, package, size_match) ==
    IF size_match.ok
    THEN _display_progress(w, DOWN \o "  Downloading " \o package \o " (" \o size_match.g1 \o ")...")
    ELSE _display_progress(w, DOWN \o "  Downloading " \o package \o "...")

\* lines 128-141; w1 is the world after lines 120-124
downloading_package(w1, ln, package_match) ==
    IF package_match.ok
    THEN show_download([w1 EXCEPT !.self.current_package = Some(package_match.g1),
                                  !.self.current_action = "Downloading"],
                       ln, package_match.g1, re_size(ln))
    ELSE w1

\* lines 119-141
downloading_matched(w, ln, downloading_match, rest) ==
    IF downloading_match.ok
    THEN downloading_package(first_download(w), ln, re_package(downloading_match.g1))
    ELSE rest

\* parse_line, lines 113-141: "Downloading package-name-version.whl (size)".
downloading_branch(w, ln, first_char, rest) ==
    downloading_matched(w, ln,
        IF first_char = "D" /\ StartsWith(ln, "Downloading")
        THEN re_literal_group(ln, "Downloading", "[^\\s]") ELSE NoMatch,
        rest)

\* clear_previous without the test of the terminal.
clear_regardless(w) == clear_line(w)

\* lines 155-156
clear_previous(w) == IF w.self.stderr_is_tty THEN clear_line(w) ELSE w

\* lines 152-159; w1 is the world after line 151
installing_first(w1, packages_list) ==
    IF ~w1.self.installing_shown
    THEN _display_progress(clear_previous([w1 EXCEPT !.self.installing_shown = TRUE]),
                           BOX \o " Installing: " \o packages_list)
    ELSE w1

\* lines 149-159
installing_matched(w, installing_match, rest) ==
    IF installing_match.ok
    THEN installing_first([w EXCEPT !.self.current_action = "Installing"], installing_match.g1)
    ELSE rest

\* parse_line, lines 143-159: "Installing collected packages: ...".
installing_branch(w, ln, first_char, rest) ==
    installing_matched(w,
        IF first_char = "I" /\ StartsWith(ln, "Installing")
        THEN re_literal_group(ln, "Installing collected packages:", ".") ELSE NoMatch,
        rest)

\* success_matched displaying the list of the installed packages.
success_prints(w, success_match, rest) ==
    IF success_match.ok
    THEN _display_progress(clear_previous([w EXCEPT !.self.current_action = "Completed"]),
                           "Successfully installed " \o success_match.g1)
    ELSE rest

\* success_matched starting the flags afresh once the installation is over.
success_resets(w, success_match, rest) ==
    IF success_match.ok
    THEN clear_previous([w EXCEPT !.self.current_action = "Completed",
                                  !.self.collecting_shown = FALSE,
                                  !.self.downloading_shown = FALSE,
                                  !.self.installing_shown = FALSE])
    ELSE rest

\* lines 167-176
success_matched(w, success_match, rest) ==
    IF success_match.ok
    THEN clear_previous([w EXCEPT !.self.current_action = "Completed"])
    ELSE rest

\* parse_line, lines 161-176: "Successfully installed ...".
success_branch(w, ln, first_char, rest) ==
    success_matched(w,
        IF first_char = "S" /\ StartsWith(ln, "Successfully")
        THEN re_literal_group(ln, "Successfully installed", ".") ELSE NoMatch,
        rest)

\* building_matched recording the action without the package.
building_untracked(w, building_match, rest) ==
    IF building_match.ok
    THEN [w EXCEPT !.self.current_action = "Building"]
    ELSE rest

\* lines 184-189
building_matched(w, building_match, rest) ==
    IF building_match.ok
    THEN [w EXCEPT !.self.current_package = Some(building_match.g1),
                   !.self.current_action = "Building"]
    ELSE rest

\* parse_line, lines 178-189: "Building wheel for ...".
building_branch(w, ln, first_char, rest) ==
    building_matched(w,
        IF first_char = "B" /\ StartsWith(ln, "Building")
        THEN re_literal_group(ln, "Building wheel for", "[^\\s(]") ELSE NoMatch,
        rest)

\* cached_package with the action of the Downloading branch.
cached_as_download(w1, package_match) ==
    IF package_match.ok
    THEN _display_progress([w1 EXCEPT !.self.current_package = Some(package_match.g1),
                                      !.self.current_action = "Downloading"],
                           DISK \o " Using cached " \o package_match.g1 \o "...")
    ELSE w1

\* lines 205-212; w1 is the world after lines 198-202
cached_package(w1, package_match) ==
    IF package_match.ok
    THEN _display_progress([w1 EXCEPT !.self.current_package = Some(package_match.g1),
                                      !.self.current_action = "Using cached"],
                           DISK \o " Using cached " \o package_match.g1 \o "...")
    ELSE w1

\* lines 197-212
cached_matched(w, cached_match, rest) ==
    IF cached_match.ok
    THEN cached_package(first_download(w), re_package(cached_match.g1))
    ELSE rest

\* parse_line, lines 191-212: "Using cached ...".
cached_branch(w, ln, first_char, rest) ==
    cached_matched(w,
        IF first_char = "U" /\ StartsWith(ln, "Using")
        THEN re_literal_group(ln, "Using cached", "[^\\s]") ELSE NoMatch,
        rest)

\* parse_line from line 48 on: the branches in the order of the code, each
\* one reached only when none before it has returned; the method ends
\* without a change when none returns.
parse_stripped(w, ln, first_char) ==
    percentage_branch(w, ln, first_char,
      progress_bar_branch(w, ln,
        collecting_branch(w, ln, first_char,
          downloading_branch(w, ln, first_char,
            installing_branch(w, ln, first_char,
              success_branch(w, ln, first_char,
                building_branch(w, ln, first_char,
                  cached_branch(w, ln, first_char, w))))))))

\* lines 45-49
parse_nonempty(w, ln) == IF ln = "" THEN w ELSE parse_stripped(w, ln, At(ln, 1))

\* InstallProgress.parse_line
parse_line(w, raw) == parse_nonempty(w, strip(raw))

\* finish without the erase of line 217.
finish_keeps_line(w) == w

\* InstallProgress.finish
finish(w) ==
    IF w.self.stderr_is_tty /\ w.self.last_message # "" THEN clear_line(w) ELSE w

\* ------------------------------------------------------------- actions

\* The lines of the installation of one package from a fresh tracker, by
\* their index in Lines: Collecting foo, Downloading foo-1.0-py3-none-any.whl
\* (12 kB), Installing collected packages: foo, Successfully installed foo-1.0.
Scenario == <<1, 3, 7, 9>>

tracker_vars == <<self, stderr, last, calls, finishes, scen>>
freeze_vars == <<venv_container, skip_pkgs, venv_dirs, spec_metadata, stdout, pc>>
inject_vars == <<inject_args, inject_env, venv_dir, dependencies, all_success, attempted,
                 printed, raised, exit_code, inject_pc>>
vars == <<tracker_vars, freeze_vars, inject_vars>>

\* A tracker before its first call; no freeze is under way.
NoTracker ==
    /\ stderr = <<>>
    /\ last = [op |-> "none", line |-> 0, message |-> None, emitted |-> 0]
    /\ calls = 0
    /\ finishes = 0
    /\ scen = 0
NoFreeze ==
    /\ venv_container = <<>>
    /\ skip_pkgs = {}
    /\ venv_dirs = <<>>
    /\ spec_metadata = <<>>
    /\ stdout = <<>>
    /\ pc = "none"
NoInject ==
    /\ inject_args = [package_specs |-> <<>>, requirement_files |-> <<>>,
                      include_apps |-> FALSE, include_dependencies |-> FALSE]
    /\ inject_env = [failing |-> {}, no_apps |-> {}]
    /\ venv_dir = [state |-> "absent", injected |-> {}]
    /\ dependencies = <<>>
    /\ all_success = TRUE
    /\ attempted = <<>>
    /\ printed = <<>>
    /\ raised = "none"
    /\ exit_code = "none"
    /\ inject_pc = "none"

Init ==
    /\ \E isatty \in BOOLEAN : self = InstallProgress("foo", isatty)
    /\ NoTracker
    /\ NoFreeze
    /\ NoInject

\* The world before a call, and the step to the world w after it.
World == [self |-> self, stderr |-> stderr, message |-> None]
Becomes(w, op, i) ==
    /\ self' = w.self
    /\ stderr' = w.stderr
    /\ last' = [op |-> op, line |-> i, message |-> w.message,
                emitted |-> Len(w.stderr) - Len(stderr)]

\* The caller feeds one line of the subprocess's output to the tracker.
ParseLine(i) ==
    /\ calls < MaxCalls
    /\ finishes = 0
    /\ Becomes(parse_line(World, Lines[i]), "parse_line", i)
    /\ calls' = calls + 1
    /\ scen' = IF scen = calls /\ calls < Len(Scenario) /\ i = Scenario[calls + 1]
               THEN scen + 1 ELSE scen
    /\ UNCHANGED <<finishes, freeze_vars, inject_vars>>

\* The caller ends the display, at the end of the stream or before.
Finish ==
    /\ finishes < MaxFinish
    /\ Becomes(finish(World), "finish", 0)
    /\ finishes' = finishes + 1
    /\ UNCHANGED <<calls, scen, freeze_vars, inject_vars>>

Next ==
    \/ \E i \in 1..Len(Lines) : ParseLine(i)
    \/ Finish

Spec == Init /\ [][Next]_vars

\* -------------------------------------------------------------- freeze

\* freeze.py, line 9
PIPX_SPEC_VERSION == "0.1"

\* The names a venv directory can have, in the order sorted() gives them.
Names == <<"black", "nox", "pycowsay", "pylint">>

\* The packages that can be injected in a venv.
Injectable == {"nox", "pylint"}

\* The names skip_pkgs is made of: names of venvs and one of no venv.
Skippable == {"black", "pycowsay", "absent"}

\* freeze, lines 31-40
not_required_keys == <<
    "apps",
    "app_paths",
    "apps_of_dependencies",
    "app_paths_of_dependencies",
    "man_pages",
    "man_paths",
    "man_pages_of_dependencies",
    "man_paths_of_dependencies" >>

\* The keys of the dict of one package in to_dict(): the keys that freeze
\* pops, all of which pop finds (it has no default), and the keys it leaves.
package_keys ==
    {not_required_keys[k] : k \in 1..Len(not_required_keys)}
        \cup {"package", "package_or_url", "pip_args", "include_dependencies",
              "include_apps", "package_version", "suffix"}

\* The dict of the package called name; each value is its own.
package_dict(name) == [key \in package_keys |-> <<name, key>>]

\* venv.pipx_metadata.to_dict() (line 29) of the venv called name with the
\* packages of injected in it: the two entries freeze reads and, for the
\* entries it does not, python_version.
to_dict(name, injected) ==
    [main_package      |-> package_dict(name),
     python_version    |-> <<name, "python_version">>,
     injected_packages |-> [package \in injected |-> package_dict(package)]]

\* dict.pop(key), the key in the dict
pop(d, key) == [k \in (DOMAIN d) \ {key} |-> d[k]]

\* lines 43-44 and 48-49: for key in not_required_keys: d.pop(key), from
\* the key of index k on
RECURSIVE pop_not_required(_, _)
pop_not_required(d, k) ==
    IF k > Len(not_required_keys) THEN d
    ELSE pop_not_required(pop(d, not_required_keys[k]), k + 1)

\* strip_injected leaving the injected packages as they are.
keep_injected(metadata) == metadata

\* lines 46-49
strip_injected(metadata) ==
    IF metadata.injected_packages # <<>>
    THEN [metadata EXCEPT !.injected_packages =
             [package \in DOMAIN metadata.injected_packages |->
                 pop_not_required(metadata.injected_packages[package], 1)]]
    ELSE metadata

\* lines 43-44
strip_main(metadata) ==
    [metadata EXCEPT !.main_package = pop_not_required(metadata.main_package, 1)]

\* d[key] = value on a dict d
set_item(d, key, value) ==
    [k \in (DOMAIN d) \cup {key} |-> IF k = key THEN value ELSE d[k]]

\* sorted(venv_container.iter_venv_dirs()), line 21
sorted(dirs) == SelectSeq(Names, LAMBDA name : name \in dirs)

\* The containers of at most MaxVenvs venvs.
Containers ==
    UNION {[dirs -> SUBSET Injectable] :
              dirs \in {D \in SUBSET {Names[k] : k \in 1..Len(Names)} : Cardinality(D) <= MaxVenvs}}

FreezeInit ==
    /\ self = InstallProgress("foo", FALSE)
    /\ NoTracker
    /\ \E injected \in Containers :
          venv_container = [name \in DOMAIN injected |-> to_dict(name, injected[name])]
    /\ skip_pkgs \in SUBSET Skippable
    /\ venv_dirs = <<>>
    /\ spec_metadata = <<>>
    /\ stdout = <<>>
    /\ pc = "freeze"
    /\ NoInject

\* lines 16-21
FreezeStart ==
    /\ pc = "freeze"
    /\ spec_metadata' = [pipx_spec_version |-> PIPX_SPEC_VERSION, venvs |-> <<>>]
    /\ venv_dirs' = sorted(DOMAIN venv_container)
    /\ pc' = "for"
    /\ UNCHANGED <<venv_container, skip_pkgs, stdout, tracker_vars, inject_vars>>

\* lines 23-25: a directory named in skip_pkgs
FreezeSkip ==
    /\ pc = "for"
    /\ venv_dirs # <<>>
    /\ Head(venv_dirs) \in skip_pkgs
    /\ venv_dirs' = Tail(venv_dirs)
    /\ UNCHANGED <<venv_container, skip_pkgs, spec_metadata, stdout, pc, tracker_vars, inject_vars>>

\* lines 23-51: any other directory
FreezeVenv ==
    /\ pc = "for"
    /\ venv_dirs # <<>>
    /\ Head(venv_dirs) \notin skip_pkgs
    /\ spec_metadata' =
          [spec_metadata EXCEPT !.venvs =
              set_item(@, Head(venv_dirs),
                       [metadata |-> strip_injected(strip_main(venv_container[Head(venv_dirs)]))])]
    /\ venv_dirs' = Tail(venv_dirs)
    /\ UNCHANGED <<venv_container, skip_pkgs, stdout, pc, tracker_vars, inject_vars>>

\* line 53.  json.dumps writes the document with its keys sorted, and
\* json.loads reads the same document back: stdout holds the document.
FreezePrint ==
    /\ pc = "for"
    /\ venv_dirs = <<>>
    /\ stdout' = Append(stdout, spec_metadata)
    /\ pc' = "return"
    /\ UNCHANGED <<venv_container, skip_pkgs, venv_dirs, spec_metadata, tracker_vars, inject_vars>>

FreezeNext ==
    \/ FreezeStart
    \/ FreezeSkip
    \/ FreezeVenv
    \/ FreezePrint

SpecFreeze == FreezeInit /\ [][FreezeNext]_vars

\* -------------------------------------------------------------- inject

\* pipx.constants
EXIT_CODE_OK == 0
EXIT_CODE_INJECT_ERROR == 1

\* The specifications a call can be given, and what pip fails on or finds
\* no app in.
PackageSpecs == {"nox", "pylint==2.0", "black"}

\* The requirement files there are, by the lines readlines() gives.
Files == << <<"nox\n", "pylint==2.0  \n">>, <<"black\n">>, <<>> >>

\* The lists of requirement files a call can be given, as indices in Files.
RequirementFiles == {<<>>, <<1>>, <<1, 2>>, <<3>>}

\* str.rstrip()
rstrip(s) ==
    LET keep == {k \in 1..Len(s) : ~IsSpace(At(s, k))}
    IN  IF keep = {} THEN "" ELSE SubSeq(s, 1, CHOOSE m \in keep : \A k \in keep : k <= m)

\* inject, lines 110-114: the lines of a file, of the files after it
RECURSIVE readlines(_, _)
readlines(lines, files) ==
    IF lines = <<>>
    THEN IF files = <<>> THEN <<>> ELSE readlines(Files[Head(files)], Tail(files))
    ELSE <<rstrip(Head(lines))>> \o readlines(Tail(lines), files)

\* inject_dep, lines 49-55: the name of the package of a specification, the
\* text before its version specifier.
package_name_from_spec(package_spec) ==
    Slice(package_spec, 1, Min({k \in 1..(Len(package_spec) + 1) :
                                   At(package_spec, k) \in {"", "=", "<", ">", "!", "~"}}) - 1)

\* What a call of inject_dep gives: the exception it raises ("none" when it
\* returns), the value it returns, the venv directory and the reports after it.
Raises(exception, dir, out) ==
    [raised |-> exception, value |-> FALSE, venv_dir |-> dir, printed |-> out]
Returns(value, dir, out) ==
    [raised |-> "none", value |-> value, venv_dir |-> dir, printed |-> out]

\* inject_dep, lines 65-79; dir is the venv directory after install_package
post_install(dir, out, package_name, args, env) ==
    IF args.include_apps /\ package_name \in env.no_apps
    THEN Raises("PipxError", dir, out)
    ELSE Returns(TRUE, dir, Append(out, package_name))

\* inject_dep, lines 57-79
install_package(dir, out, package_name, package_spec, args, env) ==
    IF package_spec \in env.failing
    THEN Raises("PipxError", dir, out)
    ELSE post_install([dir EXCEPT !.injected = @ \cup {package_name}], out, package_name,
                      args, env)

\* inject_dep, lines 15-79.  On line 26, next() of the iterator of an empty
\* directory raises StopIteration, and the Path it gives otherwise is true.
inject_dep(dir, out, package_spec, args, env) ==
    IF dir.state = "absent" THEN Raises("PipxError", dir, out)
    ELSE IF dir.state = "empty" THEN Raises("StopIteration", dir, out)
    ELSE IF dir.state = "no_metadata" THEN Raises("PipxError", dir, out)
    ELSE install_package(dir, out, package_name_from_spec(package_spec), package_spec,
                         args, env)

\* All sequences of specifications of MaxDeps at most.
RECURSIVE SpecLists(_)
SpecLists(n) ==
    IF n = 0 THEN {<<>>}
    ELSE SpecLists(n - 1) \cup
         {Append(l, d) : l \in {m \in SpecLists(n - 1) : Len(m) = n - 1}, d \in PackageSpecs}

\* A call of inject on a venv directory in any state.
InjectInit ==
    /\ self = InstallProgress("foo", FALSE)
    /\ NoTracker
    /\ NoFreeze
    /\ \E package_specs \in SpecLists(MaxDeps), requirement_files \in RequirementFiles,
          include_apps \in BOOLEAN, include_dependencies \in BOOLEAN :
          inject_args = [package_specs |-> package_specs,
                         requirement_files |-> requirement_files,
                         include_apps |-> include_apps,
                         include_dependencies |-> include_dependencies]
    /\ \E failing \in SUBSET PackageSpecs, no_apps \in SUBSET {"pylint"} :
          inject_env = [failing |-> failing, no_apps |-> no_apps]
    /\ \E state \in {"absent", "empty", "no_metadata", "installed"} :
          venv_dir = [state |-> state, injected |-> {}]
    /\ dependencies = <<>>
    /\ all_success = TRUE
    /\ attempted = <<>>
    /\ printed = <<>>
    /\ raised = "none"
    /\ exit_code = "none"
    /\ inject_pc = "inject"

\* lines 95-107: the arguments that inject refuses
InjectRefuse ==
    /\ inject_pc = "inject"
    /\ \/ ~inject_args.include_apps /\ inject_args.include_dependencies
       \/ inject_args.package_specs = <<>> /\ inject_args.requirement_files = <<>>
       \/ inject_args.package_specs # <<>> /\ inject_args.requirement_files # <<>>
    /\ raised' = "PipxError"
    /\ inject_pc' = "raised"
    /\ UNCHANGED <<inject_args, inject_env, venv_dir, dependencies, all_success, attempted,
                   printed, exit_code, tracker_vars, freeze_vars>>

\* lines 95-117: the arguments pass, the requirement files are read, and the
\* loop starts on package_specs or packages_list
InjectStart ==
    /\ inject_pc = "inject"
    /\ inject_args.include_apps \/ ~inject_args.include_dependencies
    /\ (inject_args.package_specs # <<>>) # (inject_args.requirement_files # <<>>)
    /\ dependencies' = IF inject_args.package_specs # <<>> THEN inject_args.package_specs
                        ELSE readlines(<<>>, inject_args.requirement_files)
    /\ all_success' = TRUE
    /\ inject_pc' = "for"
    /\ UNCHANGED <<inject_args, inject_env, venv_dir, attempted, printed, raised, exit_code,
                   tracker_vars, freeze_vars>>

\* The step of the loop on what inject_dep gives for the next dependency.
InjectBecomes(dep, r) ==
    /\ attempted' = Append(attempted, dep)
    /\ venv_dir' = r.venv_dir
    /\ printed' = r.printed
    /\ raised' = r.raised
    /\ all_success' = IF r.raised = "none" THEN all_success /\ r.value ELSE all_success
    /\ inject_pc' = IF r.raised = "none" THEN "for" ELSE "raised"

\* lines 117-127: one turn of the loop
InjectDep ==
    /\ inject_pc = "for"
    /\ Len(attempted) < Len(dependencies)
    /\ InjectBecomes(dependencies[Len(attempted) + 1],
                     inject_dep(venv_dir, printed, dependencies[Len(attempted) + 1],
                                inject_args, inject_env))
    /\ UNCHANGED <<inject_args, inject_env, dependencies, exit_code, tracker_vars,
                   freeze_vars>>

\* line 130
InjectReturn ==
    /\ inject_pc = "for"
    /\ Len(attempted) = Len(dependencies)
    /\ exit_code' = IF all_success THEN "EXIT_CODE_OK" ELSE "EXIT_CODE_INJECT_ERROR"
    /\ inject_pc' = "returned"
    /\ UNCHANGED <<inject_args, inject_env, venv_dir, dependencies, all_success, attempted,
                   printed, raised, tracker_vars, freeze_vars>>

InjectNext ==
    \/ InjectRefuse
    \/ InjectStart
    \/ InjectDep
    \/ InjectReturn

SpecInject == InjectInit /\ [][InjectNext]_vars

\* --------------------------------------------------- what the caller sees

IsWrite(o) == o.op = "write"

\* The texts written to stderr, in order, the erase requests left out.
Writes(log) == SelectSeq(log, IsWrite)

\* sub in s, of Python
Contains(s, sub) == \E k \in 1..(Len(s) - Len(sub) + 1) : SubSeq(s, k, k + Len(sub) - 1) = sub

\* The status line of an interactive terminal after the requests of log,
\* the cursor at its first column before each of them: clear_line (of
\* pipx.animate) erases the line, and a text ending in "\r" is laid over the
\* start of what the line holds.
RECURSIVE StatusLine(_)
StatusLine(log) ==
    IF log = <<>> THEN ""
    ELSE LET before == StatusLine(SubSeq(log, 1, Len(log) - 1))
             o == log[Len(log)]
             shown == SubSeq(o.text, 1, Len(o.text) - 1)
         IN  IF o.op = "clear_line" THEN ""
             ELSE shown \o Slice(before, Len(shown) + 1, Len(before))

\* What the patterns of parse_line find in a stripped line ln, each under
\* the test of the first character that the code makes before it.
Patterns(ln) ==
    [percentage  |-> IF At(ln, 1) \in {" ", BAR} THEN re_percentage(ln) ELSE NoMatch,
     sizes       |-> re_progress_bar(ln),
     collecting  |-> re_literal_group(ln, "Collecting", "[^\\s(]"),
     downloading |-> re_literal_group(ln, "Downloading", "[^\\s]"),
     installing  |-> re_literal_group(ln, "Installing collected packages:", "."),
     success     |-> re_literal_group(ln, "Successfully installed", "."),
     building    |-> re_literal_group(ln, "Building wheel for", "[^\\s(]"),
     cached      |-> re_literal_group(ln, "Using cached", "[^\\s]"),
     size        |-> re_size(ln)]

\* The same for each line of Lines, by its index.
Found == [i \in 1..Len(Lines) |-> Patterns(strip(Lines[i]))]

\* The event a line that matches as the record found does stands for in a
\* tracker slf: the first of the conditions of parse_line, in its order,
\* that the line meets.
Event(slf, found) ==
    IF found.percentage.ok THEN "Percentage"
    ELSE IF slf.current_action = "Downloading" /\ Truthy(slf.current_package) /\ found.sizes.ok
    THEN "SizedProgress"
    ELSE IF found.collecting.ok THEN "Collecting"
    ELSE IF found.downloading.ok THEN "Downloading"
    ELSE IF found.installing.ok THEN "InstallingCollected"
    ELSE IF found.success.ok THEN "SuccessfullyInstalled"
    ELSE IF found.building.ok THEN "BuildingWheel"
    ELSE IF found.cached.ok THEN "UsingCached"
    ELSE "Unrecognized"

\* The event of the line of index i in the tracker of the current state.
EventOf(i) == Event(self, Found[i])

\* In a step: the step is a call of parse_line; it is one on the line of
\* index i.
Parsed == calls' = calls + 1
ParsedAt(i) == Parsed /\ last'.line = i

\* ------------------------------------------------------------- claims

\* C1: in both modes, after every call, no two consecutive message writes
\* have the same content; and in non-interactive mode a call whose message
\* is the one displayed last writes nothing, so that two consecutive calls
\* with the same message leave one output line.
NoRepeatedWrite ==
    \A k \in 1..(Len(Writes(stderr)) - 1) : Writes(stderr)[k].text # Writes(stderr)[k + 1].text
SameMessageStep ==
    (Parsed /\ ~self.stderr_is_tty /\ last'.message = Some(self.last_message))
        => /\ stderr' = stderr
           /\ stderr[Len(stderr)].text = "  " \o self.last_message \o "\n"
C1_NoConsecutiveDuplicate == [][NoRepeatedWrite' /\ SameMessageStep]_vars

\* A non-interactive call has just asked for the message displayed last and
\* has written nothing.
C1_Witness ==
    /\ ~self.stderr_is_tty
    /\ last.op = "parse_line"
    /\ last.message = Some(self.last_message)
    /\ last.emitted = 0
    /\ Len(Writes(stderr)) >= 2

\* C2: in interactive mode the status line is empty after finish; a finish
\* when no message was ever written sends nothing to stderr; and a second
\* finish leaves the status line as the first left it.
C2_FinishLeavesNothing ==
    self.stderr_is_tty =>
        /\ finishes >= 1 => StatusLine(stderr) = ""
        /\ (last.op = "finish" /\ Writes(stderr) = <<>>) => last.emitted = 0

\* Two finish calls after a message was displayed on the terminal, the
\* status line not empty before the first of them.
C2_Witness ==
    /\ self.stderr_is_tty
    /\ finishes = 2
    /\ StatusLine(SubSeq(stderr, 1, Len(stderr) - 2)) # ""

\* C3: seen_packages never shrinks; a Collecting line with a token not yet
\* seen adds exactly that token and writes the message with the count
\* |seen_packages| after the insertion; a Collecting line with a token
\* already seen changes nothing of the tracker and writes nothing; and no
\* other step adds to seen_packages.
CollectedToken(i) == Found[i].collecting.g1
CountMessage(n) == BOX \o " Resolving dependencies... (" \o Str(n) \o " found)"
OnlyCollectingAdds ==
    /\ self.seen_packages \subseteq self'.seen_packages
    /\ self'.seen_packages # self.seen_packages =>
          \E i \in 1..Len(Lines) : ParsedAt(i) /\ EventOf(i) = "Collecting"
CollectingStep(i) ==
    (ParsedAt(i) /\ EventOf(i) = "Collecting") =>
          IF CollectedToken(i) \notin self.seen_packages
          THEN /\ self'.seen_packages = self.seen_packages \cup {CollectedToken(i)}
               /\ Cardinality(self'.seen_packages) = Cardinality(self.seen_packages) + 1
               /\ last'.message = Some(CountMessage(Cardinality(self'.seen_packages)))
               /\ Len(stderr') > Len(stderr)
               /\ stderr'[Len(stderr')] =
                      [op |-> "write",
                       text |-> "  " \o CountMessage(Cardinality(self'.seen_packages))
                                \o (IF self.stderr_is_tty THEN "\r" ELSE "\n")]
          ELSE self' = self /\ stderr' = stderr
C3_CollectingCounts ==
    [][OnlyCollectingAdds /\ \A i \in 1..Len(Lines) : CollectingStep(i)]_vars

\* A Collecting line for a token already seen has just been processed, with
\* two tokens seen, the last message being another one than the count.
C3_Witness ==
    /\ last.op = "parse_line"
    /\ Lines[last.line] = "Collecting foo"
    /\ last.emitted = 0
    /\ self.seen_packages = {"foo", "bar>=2.0"}
    /\ self.last_message # CountMessage(2)

\* C4: a line that meets none of the conditions of parse_line, the empty
\* and the blank line among them, changes nothing of the tracker and sends
\* nothing to stderr, in every state of the tracker.
UnrecognizedStep(i) ==
    (ParsedAt(i) /\ EventOf(i) = "Unrecognized") =>
        /\ self' = self
        /\ stderr' = stderr
        /\ last'.message = None
C4_UnrecognizedChangesNothing == [][\A i \in 1..Len(Lines) : UnrecognizedStep(i)]_vars

\* A line with a percentage but no bar before it has just been processed on
\* a terminal during a download.
C4_Witness ==
    /\ last.op = "parse_line"
    /\ Lines[last.line] = "done 100%"
    /\ self.stderr_is_tty
    /\ self.current_action = "Downloading"
    /\ self.last_message # ""

\* C5: a fresh interactive tracker fed the four lines of Scenario has
\* written exactly three messages, in order the count of one resolved
\* package, the download of foo with its size and the installation of foo;
\* the fourth line has sent one erase and no message.
C5_InstallOfFoo ==
    (self.stderr_is_tty /\ scen = 4 /\ calls = 4 /\ finishes = 0) =>
        /\ Writes(stderr) =
             << [op |-> "write", text |-> "  " \o BOX \o " Resolving dependencies... (1 found)\r"],
                [op |-> "write", text |-> "  " \o DOWN \o "  Downloading foo (12 kB)...\r"],
                [op |-> "write", text |-> "  " \o BOX \o " Installing: foo\r"] >>
        /\ last.message = None
        /\ last.emitted = 1
        /\ stderr[Len(stderr)].op = "clear_line"

\* The four lines of Scenario have been fed to a fresh interactive tracker.
C5_Witness == self.stderr_is_tty /\ scen = 4 /\ calls = 4 /\ finishes = 0

\* C6: on a terminal, during the download of foo, the line
\* "15.2/69.2 MB 350.1 kB/s eta 0:02:35" gives the percentage 21 (the
\* integer part of 15.2/69.2*100 = 21.96...), and the message displayed
\* includes "ETA: 0:02:35".
SizedLineOfFoo ==
    /\ self.stderr_is_tty
    /\ last.op = "parse_line"
    /\ Lines[last.line] = "15.2/69.2 MB 350.1 kB/s eta 0:02:35"
    /\ self.current_action = "Downloading"
    /\ self.current_package = Some("foo")
C6_PercentageIs21 ==
    SizedLineOfFoo =>
        /\ last.message # None
        /\ Contains(last.message[1], "Downloading foo... 21% (15.2/69.2 MB)")
        /\ Contains(last.message[1], "ETA: 0:02:35")
        /\ stderr[Len(stderr)].text = "  " \o last.message[1] \o "\r"

\* The line has just been processed and its message written.
C6_Witness == SizedLineOfFoo /\ last.emitted = 2

\* C6 as the specification has it: the percentage is 22.
C6_PercentageIs22 ==
    SizedLineOfFoo =>
        /\ last.message # None
        /\ Contains(last.message[1], "Downloading foo... 22% (15.2/69.2 MB)")
        /\ Contains(last.message[1], "ETA: 0:02:35")

\* C7: a line with downloaded/total sizes whose total is 0, processed while
\* current_action is Downloading, changes nothing of the tracker and sends
\* nothing to stderr, whatever else the line contains.
ZeroTotal == {i \in 1..Len(Lines) : Found[i].sizes.ok /\ float(Found[i].sizes.g2) = 0}
ZeroTotalStep(i) ==
    (ParsedAt(i) /\ self.current_action = "Downloading" /\ i \in ZeroTotal) =>
        /\ self' = self
        /\ stderr' = stderr
C7_ZeroTotalNotActedUpon == [][\A i \in 1..Len(Lines) : ZeroTotalStep(i)]_vars

\* C8: in non-interactive mode a Percentage or SizedProgress line writes
\* nothing and leaves last_message as it is, and only Collecting,
\* Downloading, UsingCached and InstallingCollected lines produce output.
QuietStep(i) ==
    (ParsedAt(i) /\ ~self.stderr_is_tty) =>
        /\ EventOf(i) \in {"Percentage", "SizedProgress"} =>
              stderr' = stderr /\ self'.last_message = self.last_message
        /\ stderr' # stderr =>
              EventOf(i) \in {"Collecting", "Downloading", "UsingCached", "InstallingCollected"}
C8_NoProgressOffTerminal == [][\A i \in 1..Len(Lines) : QuietStep(i)]_vars

\* C9: freeze prints one document; its venvs are the venv directories
\* whose name is not in skip_pkgs; the metadata of each has the injected
\* packages of the venv, by name; and none of the eight keys apps,
\* app_paths, man_pages, man_paths and their _of_dependencies variants is
\* left in its main_package or in any of its injected packages.
NotRequired ==
    {"apps", "app_paths", "apps_of_dependencies", "app_paths_of_dependencies",
     "man_pages", "man_paths", "man_pages_of_dependencies", "man_paths_of_dependencies"}
FrozenVenv(name, metadata) ==
    /\ DOMAIN metadata.injected_packages = DOMAIN venv_container[name].injected_packages
    /\ (DOMAIN metadata.main_package) \cap NotRequired = {}
    /\ \A package \in DOMAIN metadata.injected_packages :
          (DOMAIN metadata.injected_packages[package]) \cap NotRequired = {}
C9_FreezeDocument ==
    IF pc = "return"
    THEN /\ Len(stdout) = 1
         /\ DOMAIN stdout[1].venvs = (DOMAIN venv_container) \ skip_pkgs
         /\ \A name \in DOMAIN stdout[1].venvs :
               FrozenVenv(name, stdout[1].venvs[name].metadata)
    ELSE stdout = <<>>

\* freeze has returned from a container with a venv it skipped and a venv
\* with two injected packages.
C9_Witness ==
    /\ pc = "return"
    /\ (DOMAIN venv_container) \cap skip_pkgs # {}
    /\ \E name \in (DOMAIN venv_container) \ skip_pkgs :
          Cardinality(DOMAIN venv_container[name].injected_packages) = 2

\* C10: in both modes every InstallingCollected line sets current_action
\* to Installing and leaves "Installing: {list}" as the message displayed
\* last: it writes it, unless it is the message that was displayed last
\* already.
InstallingMessage(i) == BOX \o " Installing: " \o Found[i].installing.g1
InstallingStep(i) ==
    (ParsedAt(i) /\ EventOf(i) = "InstallingCollected") =>
        /\ self'.current_action = "Installing"
        /\ self'.last_message = InstallingMessage(i)
        /\ self.last_message # InstallingMessage(i) =>
              /\ Len(stderr') > Len(stderr)
              /\ stderr'[Len(stderr')] =
                     [op |-> "write",
                      text |-> "  " \o InstallingMessage(i)
                               \o (IF self.stderr_is_tty THEN "\r" ELSE "\n")]
C10_EveryInstallingShown == [][\A i \in 1..Len(Lines) : InstallingStep(i)]_vars


\* C11: collecting_shown, downloading_shown and installing_shown are false
\* in a new tracker, and no call of parse_line or finish sets one of them
\* back to false: each goes from false to true at most once.
FlagsFalse ==
    ~self.collecting_shown /\ ~self.downloading_shown /\ ~self.installing_shown
FlagsStay ==
    /\ self.collecting_shown => self'.collecting_shown
    /\ self.downloading_shown => self'.downloading_shown
    /\ self.installing_shown => self'.installing_shown
C11_FlagsSetOnce == (last.op = "none" => FlagsFalse) /\ [][FlagsStay]_vars

\* The three flags are set, the installation is over and finish was called.
C11_Witness ==
    /\ self.collecting_shown /\ self.downloading_shown /\ self.installing_shown
    /\ self.current_action = "Completed"
    /\ finishes >= 1


\* The token of a Downloading or UsingCached line, the characters of it
\* before the first "-", and the banner of the line with that name.
FileToken(i) ==
    IF Found[i].downloading.ok THEN Found[i].downloading.g1 ELSE Found[i].cached.g1
NameOf(i) == Slice(FileToken(i), 1, RunEnd(FileToken(i), 1, "[^-]"))
FileAction(i) == IF Found[i].downloading.ok THEN "Downloading" ELSE "Using cached"
FileBanner(i) ==
    IF ~Found[i].downloading.ok THEN DISK \o " Using cached " \o NameOf(i) \o "..."
    ELSE IF Found[i].size.ok
    THEN DOWN \o "  Downloading " \o NameOf(i) \o " (" \o Found[i].size.g1 \o ")..."
    ELSE DOWN \o "  Downloading " \o NameOf(i) \o "..."

\* The step leaves message as the message displayed last, and has written
\* it as its last request unless it was displayed last already.
Renders(message) ==
    /\ self'.last_message = message
    /\ self.last_message # message =>
          /\ Len(stderr') > Len(stderr)
          /\ stderr'[Len(stderr')] =
                 [op |-> "write",
                  text |-> "  " \o message \o (IF self.stderr_is_tty THEN "\r" ELSE "\n")]

\* The update of a Downloading or UsingCached line in full.
FileStep(i) ==
    /\ self'.current_package = Some(NameOf(i))
    /\ self'.current_action = FileAction(i)
    /\ self'.downloading_shown
    /\ Renders(FileBanner(i))

\* C12: in both modes and in every state, a Downloading or UsingCached
\* line whose token has characters before its first "-" sets current_package
\* to them, current_action to Downloading or Using cached, downloading_shown
\* to true, and renders its banner (with the size when the line has one); a
\* line whose token begins with "-" sets downloading_shown only: it leaves
\* current_package, current_action and the message displayed last, and
\* writes no message.
NamedFileStep(i) ==
    (ParsedAt(i) /\ EventOf(i) \in {"Downloading", "UsingCached"}) =>
        IF NameOf(i) # ""
        THEN FileStep(i)
        ELSE /\ self' = [self EXCEPT !.downloading_shown = TRUE]
             /\ Writes(stderr') = Writes(stderr)
C12_FileEvents == [][\A i \in 1..Len(Lines) : NamedFileStep(i)]_vars

\* On a terminal, after a Collecting line, "Downloading -r.txt" has just
\* been processed: the resolving banner is erased and nothing is displayed.
C12_Witness ==
    /\ self.stderr_is_tty
    /\ last.op = "parse_line"
    /\ Lines[last.line] = "Downloading -r.txt"
    /\ last.emitted = 1
    /\ self.current_action = "Collecting"
    /\ self.downloading_shown

\* C12 as the specification has it: every Downloading and every
\* UsingCached line makes the update in full.
AnyFileStep(i) ==
    (ParsedAt(i) /\ EventOf(i) \in {"Downloading", "UsingCached"}) => FileStep(i)
C12_EveryFileEvent == [][\A i \in 1..Len(Lines) : AnyFileStep(i)]_vars


\* The requests a step sends to stderr, and the two kinds of request.
NewRequests == SubSeq(stderr', Len(stderr) + 1, Len(stderr'))
Erase == [op |-> "clear_line", text |-> ""]
Redraw(message) == [op |-> "write", text |-> "  " \o message \o "\r"]

\* C13: on a terminal, the first Downloading or UsingCached line, when a
\* Collecting line came before it, sends an erase first and only then the
\* erase and the text of its own banner (the erase alone when its token
\* gives no name); the first InstallingCollected line does the same; and
\* every text on stderr comes right after an erase, so that no banner is
\* written over another.
FirstFileStep(i) ==
    (/\ ParsedAt(i)
     /\ EventOf(i) \in {"Downloading", "UsingCached"}
     /\ ~self.downloading_shown
     /\ self.seen_packages # {}) =>
        NewRequests = IF NameOf(i) # "" THEN <<Erase, Erase, Redraw(FileBanner(i))>>
                      ELSE <<Erase>>
FirstInstallingStep(i) ==
    (ParsedAt(i) /\ EventOf(i) = "InstallingCollected" /\ ~self.installing_shown) =>
        NewRequests = <<Erase, Erase, Redraw(InstallingMessage(i))>>
EraseBeforeText ==
    \A k \in 1..Len(stderr) : stderr[k].op = "write" => k > 1 /\ stderr[k - 1] = Erase
BannerClearStep ==
    self.stderr_is_tty =>
        /\ \A i \in 1..Len(Lines) : FirstFileStep(i) /\ FirstInstallingStep(i)
        /\ EraseBeforeText'
C13_EraseBeforeBanner == [][BannerClearStep]_vars

\* On a terminal the first Downloading line after a Collecting line has just
\* been processed and has sent two erases and its banner.
C13_Witness ==
    /\ self.stderr_is_tty
    /\ last.op = "parse_line"
    /\ Lines[last.line] = "Downloading foo-1.0-py3-none-any.whl (12 kB)"
    /\ last.emitted = 3
    /\ self.collecting_shown
    /\ ~self.installing_shown


\* The attributes that the rule of an event may assign, and the messages
\* that it may display, for the line of index i in the tracker of the
\* current state.
Assigned(event) ==
    CASE event \in {"Percentage", "SizedProgress"} -> {"last_message"}
      [] event = "Collecting" ->
           {"seen_packages", "current_package", "current_action", "collecting_shown",
            "last_message"}
      [] event \in {"Downloading", "UsingCached"} ->
           {"current_package", "current_action", "downloading_shown", "last_message"}
      [] event = "InstallingCollected" -> {"current_action", "installing_shown", "last_message"}
      [] event = "SuccessfullyInstalled" -> {"current_action"}
      [] event = "BuildingWheel" -> {"current_package", "current_action"}
      [] event = "Unrecognized" -> {}
PackageText == IF self.current_package = None THEN "" ELSE self.current_package[1]
OwnMessage(event, i, message) ==
    CASE event = "Percentage" ->
           message \in {"Downloading " \o PackageText \o "... " \o Found[i].percentage.g1 \o "%",
                        "Resolving " \o PackageText \o "... " \o Found[i].percentage.g1 \o "%"}
      [] event = "SizedProgress" ->
           /\ StartsWith(message, "Downloading " \o PackageText \o "... ")
           /\ Contains(message, "% (")
      [] event = "Collecting" -> message = CountMessage(Cardinality(self'.seen_packages))
      [] event \in {"Downloading", "UsingCached"} -> message = FileBanner(i)
      [] event = "InstallingCollected" -> message = InstallingMessage(i)
      [] OTHER -> FALSE

\* C14: the rules are tried in the order Percentage, SizedProgress,
\* Collecting, Downloading, InstallingCollected, SuccessfullyInstalled,
\* BuildingWheel, UsingCached, and only the first one that matches the line
\* acts: a call writes at most one message, a message of that rule, and
\* assigns no attribute but those of that rule; on a terminal during a
\* download a line with both a percentage and sizes displays the message
\* with the percentage alone.
OneRuleStep(i) ==
    ParsedAt(i) =>
        /\ Len(Writes(NewRequests)) <= 1
        /\ \A o \in {NewRequests[k] : k \in 1..Len(NewRequests)} :
              o.op = "write" =>
                 \E message \in {self'.last_message} :
                    /\ OwnMessage(EventOf(i), i, message)
                    /\ o.text = "  " \o message \o (IF self.stderr_is_tty THEN "\r" ELSE "\n")
        /\ \A name \in (DOMAIN self) \ Assigned(EventOf(i)) : self'[name] = self[name]
        /\ (/\ self.stderr_is_tty
            /\ self.current_action = "Downloading"
            /\ Found[i].percentage.ok
            /\ Found[i].sizes.ok) =>
              self'.last_message =
                  "Downloading " \o PackageText \o "... " \o Found[i].percentage.g1 \o "%"
C14_FirstMatchOnly == [][\A i \in 1..Len(Lines) : OneRuleStep(i)]_vars

\* C15: a Percentage or a SizedProgress line changes neither the package,
\* the action, the seen packages nor a shown flag; on a terminal a
\* percentage p displays 'Downloading {pkg}... {p}%' during a download,
\* 'Resolving {pkg}... {p}%' during the collection and nothing in any other
\* action, and sizes display a message during a download only.
ProgressMessage(i) ==
    (IF self.current_action = "Downloading" THEN "Downloading " ELSE "Resolving ")
        \o PackageText \o "... " \o Found[i].percentage.g1 \o "%"
ProgressStep(i) ==
    (ParsedAt(i) /\ EventOf(i) \in {"Percentage", "SizedProgress"}) =>
        /\ \A name \in (DOMAIN self) \ {"last_message"} : self'[name] = self[name]
        /\ (self.stderr_is_tty /\ EventOf(i) = "Percentage") =>
              IF self.current_action \in {"Downloading", "Collecting"}
              THEN Renders(ProgressMessage(i))
              ELSE NewRequests = <<>> /\ self' = self
        /\ (EventOf(i) = "SizedProgress" /\ NewRequests # <<>>) =>
              self.current_action = "Downloading"
C15_ProgressKeepsState == [][\A i \in 1..Len(Lines) : ProgressStep(i)]_vars

\* C16: a SuccessfullyInstalled line sets current_action to "Completed" and
\* changes no other attribute; it writes no message in either mode; on a
\* terminal it sends one erase, after which the status line is empty, and
\* off a terminal it sends nothing.
SuccessStep(i) ==
    (ParsedAt(i) /\ EventOf(i) = "SuccessfullyInstalled") =>
        /\ self' = [self EXCEPT !.current_action = "Completed"]
        /\ last'.message = None
        /\ NewRequests = (IF self.stderr_is_tty THEN <<Erase>> ELSE <<>>)
        /\ self.stderr_is_tty => StatusLine(stderr') = ""
C16_SuccessClearsLine == [][\A i \in 1..Len(Lines) : SuccessStep(i)]_vars

\* On a terminal a SuccessfullyInstalled line has just been processed while
\* the status line held the banner of the installation.
C16_Witness ==
    /\ self.stderr_is_tty
    /\ last.op = "parse_line"
    /\ Found[last.line].success.ok
    /\ self.current_action = "Completed"
    /\ self.installing_shown
    /\ Len(stderr) >= 3
    /\ stderr[Len(stderr)] = Erase
    /\ stderr[Len(stderr) - 1] = Redraw(self.last_message)
    /\ StatusLine(SubSeq(stderr, 1, Len(stderr) - 1)) = "  " \o self.last_message
    /\ StatusLine(stderr) = ""

\* C17: on a terminal, right after every line that prescribes a banner (a
\* Collecting line with a token not seen before, a Downloading or a
\* UsingCached line with a package name), the status line shows the message
\* of that line; it is never blank and never shows an older message, also
\* when the same line comes again after a SuccessfullyInstalled line.
Banner(i) ==
    IF EventOf(i) = "Collecting"
    THEN CountMessage(Cardinality(self.seen_packages) + 1)
    ELSE FileBanner(i)
PrescribesBanner(i) ==
    \/ EventOf(i) = "Collecting" /\ CollectedToken(i) \notin self.seen_packages
    \/ EventOf(i) \in {"Downloading", "UsingCached"} /\ NameOf(i) # ""
BannerStep(i) ==
    (self.stderr_is_tty /\ ParsedAt(i) /\ PrescribesBanner(i)) =>
        StatusLine(stderr') = "  " \o Banner(i)
C17_BannerOnLine == [][\A i \in 1..Len(Lines) : BannerStep(i)]_vars

\* C18: off a terminal no call of parse_line or finish sends an erase or a
\* carriage return; all that stderr receives is messages, each as one line
\* that ends in a newline; and finish sends nothing.
MessageLine(o) ==
    /\ o.op = "write"
    /\ Len(o.text) >= 4
    /\ StartsWith(o.text, "  ")
    /\ At(o.text, Len(o.text)) = "\n"
    /\ ~Contains(SubSeq(o.text, 1, Len(o.text) - 1), "\n")
    /\ ~Contains(o.text, "\r")
OnlyMessageLines == \A k \in 1..Len(stderr) : MessageLine(stderr[k])
PlainStep ==
    ~self.stderr_is_tty =>
        /\ OnlyMessageLines'
        /\ finishes' # finishes => stderr' = stderr
C18_PlainOutput == [][PlainStep]_vars

\* Off a terminal a whole installation has been processed and finished:
\* stderr holds message lines, and finish was the last call.
C18_Witness ==
    /\ ~self.stderr_is_tty
    /\ last.op = "finish"
    /\ finishes >= 1
    /\ self.current_action = "Completed"
    /\ self.downloading_shown
    /\ self.installing_shown
    /\ Len(stderr) >= 2

\* C19: whenever current_action is "Collecting", "Downloading", "Building"
\* or "Using cached", current_package is set: it is not None and it is not
\* the empty string; hence no percentage or sized message was ever written
\* with the package name missing.
PackageActions == {"Collecting", "Downloading", "Building", "Using cached"}
NamelessProgress(text) ==
    \E verb \in {"Downloading ", "Resolving "} :
        \/ StartsWith(text, "  " \o verb \o "... ")
        \/ StartsWith(text, "  " \o verb \o "None... ")
C19_ActionHasPackage ==
    /\ self.current_action \in PackageActions =>
          self.current_package # None /\ self.current_package[1] # ""
    /\ \A k \in 1..Len(stderr) : ~NamelessProgress(stderr[k].text)

\* On a terminal a percentage line has just been displayed during the
\* download of a package, under the name of that package.
C19_Witness ==
    /\ self.stderr_is_tty
    /\ self.current_action = "Downloading"
    /\ self.current_package # None
    /\ last.op = "parse_line"
    /\ Found[last.line].percentage.ok
    /\ last.emitted = 2
    /\ StartsWith(self.last_message, "Downloading " \o self.current_package[1] \o "... ")

\* inject_dep has returned for the first n dependencies, in their order,
\* and their packages are in the venv.
Completed(n) ==
    /\ printed = [k \in 1..n |-> package_name_from_spec(dependencies[k])]
    /\ \A k \in 1..n : package_name_from_spec(dependencies[k]) \in venv_dir.injected
InOrder ==
    /\ Len(attempted) <= Len(dependencies)
    /\ attempted = SubSeq(dependencies, 1, Len(attempted))
ReturnedOk == exit_code = "EXIT_CODE_OK" => Completed(Len(dependencies))
RaisedAt ==
    (inject_pc = "raised" /\ attempted # <<>>) => Completed(Len(attempted) - 1)

\* C20: inject calls inject_dep on its dependencies one after the other in
\* the order of the list, and ends either raising PipxError or returning
\* EXIT_CODE_OK, never EXIT_CODE_INJECT_ERROR; when it returns, inject_dep
\* has completed for every dependency; when inject_dep raises for a
\* dependency, those before it are injected and those after it have not
\* been attempted.
C20_RaisesOrReturnsOk ==
    /\ raised \in {"none", "PipxError"}
    /\ exit_code \in {"none", "EXIT_CODE_OK"}
    /\ InOrder
    /\ ReturnedOk
    /\ RaisedAt

====
